---- MODULE Spec2Model ----
(***************************************************************************)
(* DevMemArena (src/devmem_alloc.h): a bump allocator over one region      *)
(* mapped from /dev/mem.  The three static members base_, size_ and        *)
(* offset_ are the program state; init, alloc<T>, is_arena_ptr,            *)
(* print_stats and the GAPBS_FREE macro are the operations.  size_t and    *)
(* pointers are WordBits wide and every size_t expression wraps modulo     *)
(* 2^WordBits, as the unsigned arithmetic of the code does.                *)
(***************************************************************************)
EXTENDS Integers, Naturals, Sequences, FiniteSets, TLC

\* ------------------------------------------------------------------ bounds
\* width of size_t / of an address, scaled down
WordBits == 11
\* number of successful alloc calls followed in one execution
MaxAllocs == 3

\* ------------------------------------------------------- machine and types
Mod == 2 ^ WordBits
\* the values of a size_t
SizeT == 0 .. (Mod - 1)
\* nullptr
Null == 0
\* MAP_FAILED is (void *) -1
MAP_FAILED == Mod - 1
\* granularity of mmap: the base of a mapping is a multiple of it
PageSize == 8

\* the element types T of alloc<T>: <<sizeof(T), alignof(T)>>; alignof is a
\* power of two and sizeof a multiple of it
ElemTypes == { <<1, 1>>, <<4, 4>>, <<8, 8>> }
SizeOf(T) == T[1]
AlignOf(T) == T[2]

\* physical addresses and sizes handed to init
PhysAddrs == { PageSize, 2 * PageSize }
InitSizes == { 0, 8, 12, 16 }
\* the addresses the kernel places the mapping at
MapBases == { PageSize, 2 * PageSize }
\* the element counts handed to alloc: small ones, two whose product with
\* sizeof(T) reaches or passes 2^WordBits, one that makes cur + needed pass it
Counts == { 0, 1, 2, Mod \div 8, Mod \div 8 + 1, Mod - 8 }
\* the pointers handed to GAPBS_FREE
FreePtrs == { Null, PageSize }
\* the pointers handed to is_arena_ptr: nullptr, the first and the last
\* address of every 4-byte word up to the end of the highest mapping of
\* InitSizes bytes (so both sides of every arena boundary), the top address
Ptrs == { p \in 0 .. (5 * PageSize) : p % 4 \in { 0, 3 } } \cup { Mod - 1 }

\* ------------------------------------------------------------------- state
VARIABLES base_, size_, offset_, pc, allocs, last
vars == << base_, size_, offset_, pc, allocs, last >>

\* the record of the call that ran last: its operation, its arguments, the
\* cursor it found, whether it returned, and the value it returned
NoCall ==
    [ op |-> "none", arg |-> 0, bytes |-> 0, align |-> 1, pre |-> 0,
      outcome |-> "none", ret |-> 0 ]

\* ------------------------------------------------------ the mapping device
RoundUpPage(n) == ((n + PageSize - 1) \div PageSize) * PageSize

\* the addresses mmap(nullptr, size, ...) can return: page-aligned, not the
\* null page, the whole mapping below the top page of the address space;
\* a length of 0 is always rejected
MmapResults(size) ==
    IF size = 0 THEN {}
    ELSE { b \in MapBases : /\ b % PageSize = 0
                         /\ b >= PageSize
                         /\ b + RoundUpPage(size) <= Mod - PageSize }

\* ----------------------------------------------------------------- helpers
\* a rounding that drops the "+ align - 1": x & ~(align - 1)
AlignDown(x, align) == x - (x % align)

\* (x + align - 1) & ~(align - 1) in size_t arithmetic, align a power of two
AlignUp(x, align) ==
    LET t == (x + align - 1) % Mod
    IN  t - (t % align)

\* n * sizeof(T) in size_t arithmetic
Needed(n, T) == (n * SizeOf(T)) % Mod

\* a test that forgets the bytes already handed out: needed > size_
ExhaustedIgnoringCur(cur, needed, size) == needed > size

\* a test that is off by one: cur + needed >= size_
ExhaustedAtBoundary(cur, needed, size) == ((cur + needed) % Mod) >= size

\* the test cur + needed > size_ in size_t arithmetic
Exhausted(cur, needed, size) == ((cur + needed) % Mod) > size

\* a cursor advanced from where it stood, the alignment padding forgotten
BumpFromOffset(cur, needed) == (offset_ + needed) % Mod

\* cur + needed in size_t arithmetic
Bump(cur, needed) == (cur + needed) % Mod

\* an init without its guard against a second call
NeverMapped(b) == FALSE

\* the test base_ != nullptr that opens init
AlreadyMapped(b) == b # Null

\* (cp >= base_) && (cp < base_ + size_)
InArena(cp, b, size) == (cp >= b) /\ (cp < (b + size) % Mod)

Init ==
    /\ base_ = Null
    /\ size_ = 0
    /\ offset_ = 0
    /\ pc = "running"
    /\ allocs = << >>
    /\ last = NoCall

\* -------------------------------------------------------------- operations
\* the record init leaves in last
InitCall(size, outcome, ret) ==
    [ NoCall EXCEPT !.op = "init", !.arg = size, !.pre = offset_,
                    !.outcome = outcome, !.ret = ret ]

\* a second call that warns and then maps again (the return is missing)
init_twice_remaps(phys_addr, size) ==
    \E mapped \in MmapResults(size) :
      /\ base_' = mapped
      /\ size_' = size
      /\ offset_' = 0
      /\ last' = InitCall(size, "twice", mapped)
      /\ UNCHANGED pc

\* base_ != nullptr: warn and return
init_twice(phys_addr, size) ==
    /\ last' = InitCall(size, "twice", 0)
    /\ UNCHANGED << base_, size_, offset_, pc >>

\* open("/dev/mem") < 0: perror, exit(1)
init_open_failed(phys_addr, size) ==
    /\ last' = InitCall(size, "open_failed", 0)
    /\ pc' = "exited"
    /\ UNCHANGED << base_, size_, offset_ >>

\* a failed mmap whose result is stored and used (the exit is missing)
init_mmap_failed_goes_on(phys_addr, size) ==
    /\ last' = InitCall(size, "mmap_failed", MAP_FAILED)
    /\ base_' = MAP_FAILED
    /\ size_' = size
    /\ offset_' = 0
    /\ UNCHANGED pc

\* mmap returned MAP_FAILED: perror, exit(1)
init_mmap_failed(phys_addr, size) ==
    /\ last' = InitCall(size, "mmap_failed", MAP_FAILED)
    /\ pc' = "exited"
    /\ UNCHANGED << base_, size_, offset_ >>

\* the mapping was made: record it
init_mapped(phys_addr, size) ==
    \E mapped \in MmapResults(size) :
      /\ base_' = mapped
      /\ size_' = size
      /\ offset_' = 0
      /\ last' = InitCall(size, "mapped", mapped)
      /\ UNCHANGED pc

init(phys_addr, size) ==
    /\ pc = "running"
    /\ IF AlreadyMapped(base_)
       THEN init_twice(phys_addr, size)
       ELSE \/ init_open_failed(phys_addr, size)
            \/ init_mmap_failed(phys_addr, size)
            \/ init_mapped(phys_addr, size)
    /\ UNCHANGED allocs

\* an alloc that stores the address of the next free byte, not its offset:
\* offset_ = (size_t)(base_ + cur + needed)
alloc_stores_address(T, n) ==
    /\ pc = "running"
    /\ LET align == AlignOf(T)
           cur == AlignUp(offset_, align)
           needed == Needed(n, T)
           call == [ NoCall EXCEPT !.op = "alloc", !.arg = n,
                                   !.bytes = n * SizeOf(T), !.align = align,
                                   !.pre = offset_ ]
       IN  IF Exhausted(cur, needed, size_)
           THEN /\ pc' = "exited"
                /\ last' = [ call EXCEPT !.outcome = "exhausted" ]
                /\ UNCHANGED << offset_, allocs >>
           ELSE /\ offset_' = (base_ + cur + needed) % Mod
                /\ last' = [ call EXCEPT !.outcome = "returned",
                                         !.ret = (base_ + cur) % Mod ]
                /\ allocs' = Append(allocs,
                                    [ start |-> cur, bytes |-> n * SizeOf(T),
                                      align |-> align, pre |-> offset_ ])
                /\ UNCHANGED pc
    /\ UNCHANGED << base_, size_ >>

alloc(T, n) ==
    /\ pc = "running"
    /\ LET align == AlignOf(T)
           cur == AlignUp(offset_, align)
           needed == Needed(n, T)
           call == [ NoCall EXCEPT !.op = "alloc", !.arg = n,
                                   !.bytes = n * SizeOf(T), !.align = align,
                                   !.pre = offset_ ]
       IN  IF Exhausted(cur, needed, size_)
           THEN /\ pc' = "exited"
                /\ last' = [ call EXCEPT !.outcome = "exhausted" ]
                /\ UNCHANGED << offset_, allocs >>
           ELSE /\ offset_' = Bump(cur, needed)
                /\ last' = [ call EXCEPT !.outcome = "returned",
                                         !.ret = (base_ + cur) % Mod ]
                /\ allocs' = Append(allocs,
                                    [ start |-> cur, bytes |-> n * SizeOf(T),
                                      align |-> align, pre |-> offset_ ])
                /\ UNCHANGED pc
    /\ UNCHANGED << base_, size_ >>

is_arena_ptr(p) ==
    /\ pc = "running"
    /\ last' = [ NoCall EXCEPT !.op = "is_arena_ptr", !.arg = p,
                               !.pre = offset_, !.outcome = "returned",
                               !.ret = IF InArena(p, base_, size_)
                                       THEN 1 ELSE 0 ]
    /\ UNCHANGED << base_, size_, offset_, pc, allocs >>

\* a report that shifts the cursor in place: offset_ >>= 20
print_stats_shifts ==
    /\ pc = "running"
    /\ offset_' = offset_ \div (2 ^ 20)
    /\ last' = [ NoCall EXCEPT !.op = "print_stats", !.pre = offset_,
                               !.outcome = "returned" ]
    /\ UNCHANGED << base_, size_, pc, allocs >>

print_stats ==
    /\ pc = "running"
    /\ last' = [ NoCall EXCEPT !.op = "print_stats", !.pre = offset_,
                               !.outcome = "returned" ]
    /\ UNCHANGED << base_, size_, offset_, pc, allocs >>

GAPBS_FREE(p) ==
    /\ pc = "running"
    /\ last' = [ NoCall EXCEPT !.op = "GAPBS_FREE", !.arg = p,
                               !.pre = offset_, !.outcome = "returned" ]
    /\ UNCHANGED << base_, size_, offset_, pc, allocs >>

Next ==
    \/ \E phys_addr \in PhysAddrs, size \in InitSizes : init(phys_addr, size)
    \/ /\ Len(allocs) < MaxAllocs
       /\ \E T \in ElemTypes, n \in Counts : alloc(T, n)
    \/ \E p \in Ptrs : is_arena_ptr(p)
    \/ print_stats
    \/ \E p \in FreePtrs : GAPBS_FREE(p)

Spec == Init /\ [][Next]_vars

TypeOK ==
    /\ base_ \in SizeT
    /\ size_ \in SizeT
    /\ offset_ \in SizeT
    /\ pc \in { "running", "exited" }
    /\ Len(allocs) <= MaxAllocs

\* ------------------------------------------------- vocabulary of the claims
\* the smallest multiple of a that is >= x, as a mathematical value
RoundUp(x, a) == ((x + a - 1) \div a) * a

\* the half-open intervals [s1, s1 + n1) and [s2, s2 + n2) share no address
Disjoint(s1, n1, s2, n2) ==
    \/ n1 = 0
    \/ n2 = 0
    \/ s1 + n1 <= s2
    \/ s2 + n2 <= s1

\* the call that ran last was an alloc<T>(n)
LastIsAlloc == last.op = "alloc"
\* ... and it returned a pointer
LastAllocReturned == LastIsAlloc /\ last.outcome = "returned"
\* the two lifecycle states of the arena
Uninitialized == base_ = Null
Initialized == base_ # Null

\* C1: in every reachable state 0 <= cursor <= capacity
C1_CursorWithinCapacity == 0 <= offset_ /\ offset_ <= size_

\* C1 witness: an alloc whose cur + needed passed 2^WordBits returned, in a
\* mapped arena with bytes handed out before it
C1_Witness ==
    /\ LastAllocReturned
    /\ size_ > 0
    /\ last.pre > 0
    /\ RoundUp(last.pre, last.align) + last.bytes >= Mod

\* C2 (as stated), in a mapped arena: every returned extent is disjoint from
\* every other returned extent and from the unused region
\* [base+cursor, base+capacity)
C2_ExtentsDisjoint ==
    Initialized =>
    \A i \in 1 .. Len(allocs) :
      /\ \A j \in 1 .. Len(allocs) :
           i # j => Disjoint(base_ + allocs[i].start, allocs[i].bytes,
                             base_ + allocs[j].start, allocs[j].bytes)
      /\ Disjoint(base_ + allocs[i].start, allocs[i].bytes,
                  base_ + offset_, size_ - offset_)

\* C3 (as stated), in a mapped arena: an alloc whose request passes capacity, the product taken
\* as the mathematical value, terminates the process, returns no pointer and
\* leaves the cursor where it was
C3_OversizedRequestExits ==
    (/\ Initialized
     /\ LastIsAlloc
     /\ RoundUp(last.pre, last.align) + last.bytes > size_)
      => /\ last.outcome = "exhausted"
         /\ pc = "exited"
         /\ offset_ = last.pre

\* C4 (as stated), in a mapped arena: is_arena_ptr is true of every pointer
\* alloc returned and of every address inside its extent, and false of every
\* address outside [base, base+capacity)
C4_ContainsReturned ==
    Initialized =>
      /\ \A i \in 1 .. Len(allocs) :
           /\ InArena(base_ + allocs[i].start, base_, size_)
           /\ \A k \in 0 .. (allocs[i].bytes - 1) :
                base_ + allocs[i].start + k < Mod
                  => InArena(base_ + allocs[i].start + k, base_, size_)
      /\ \A p \in SizeT :
           (p < base_ \/ p >= base_ + size_) => ~ InArena(p, base_, size_)

\* C5: the offset a successful alloc returns is the smallest multiple of the
\* alignment that is >= the cursor before the call, and the address returned
\* is a multiple of the alignment whenever base is
C5_ReturnedOffsetAligned ==
    LastAllocReturned =>
      LET start == allocs[Len(allocs)].start
      IN  /\ start % last.align = 0
          /\ start >= last.pre
          /\ start - last.pre < last.align
          /\ last.ret = base_ + start
          /\ (base_ % last.align = 0 => last.ret % last.align = 0)

\* C5 witness: a successful alloc that had to skip bytes to align
C5_Witness ==
    /\ LastAllocReturned
    /\ Initialized
    /\ last.pre % last.align # 0
    /\ last.bytes > 0

\* C6: once mapped, a further init call does not terminate the process and
\* leaves base, capacity and cursor as they were
C6_SecondInitIsNoOp ==
    [][ (Initialized /\ last'.op = "init")
          => /\ pc' = "running"
             /\ base_' = base_
             /\ size_' = size_
             /\ offset_' = offset_ ]_vars

\* C6 witness: init called again after allocations moved the cursor
C6_Witness ==
    /\ last.op = "init"
    /\ last.outcome = "twice"
    /\ Len(allocs) > 0
    /\ offset_ > 0
    /\ last.arg # size_

\* C7: an alloc whose request fits (round_up(cursor, alignment) +
\* count*element_size <= capacity) does not terminate the process, sets the
\* cursor to that sum and returns base + round_up(cursor, alignment)
C7_FittingRequestServed ==
    (LastIsAlloc /\ RoundUp(last.pre, last.align) + last.bytes <= size_)
      => /\ last.outcome = "returned"
         /\ pc = "running"
         /\ offset_ = RoundUp(last.pre, last.align) + last.bytes
         /\ last.ret = base_ + RoundUp(last.pre, last.align)

\* C7 witness: the boundary case, the new cursor equal to capacity
C7_Witness ==
    /\ LastAllocReturned
    /\ size_ > 0
    /\ last.bytes > 0
    /\ RoundUp(last.pre, last.align) + last.bytes = size_
    /\ offset_ = size_

\* C8 (as stated): across every step the cursor after the step is >= the
\* cursor before it
C8_CursorMonotone == [][ offset_' >= offset_ ]_vars

\* C9: the arena is Uninitialized or mapped; it leaves Uninitialized only by
\* an init that made the mapping, and once mapped base and capacity keep
\* their values under every operation
C9_Lifecycle ==
    [][ /\ Uninitialized => (size_ = 0 /\ offset_ = 0)
        /\ Initialized => (base_' = base_ /\ size_' = size_)
        /\ (Uninitialized /\ Initialized')
             => /\ last'.op = "init"
                /\ last'.outcome = "mapped"
                /\ base_' = last'.ret
                /\ size_' = last'.arg
                /\ pc' = "running" ]_vars

\* C9 witness: a mapped arena that served allocations and then saw every
\* kind of call, here a further init
C9_Witness ==
    /\ Initialized
    /\ Len(allocs) = MaxAllocs
    /\ last.op = "init"
    /\ pc = "running"

\* C10: an init that cannot open the device or whose mapping is rejected
\* terminates the process with the arena Uninitialized, and no step (hence
\* no alloc) is taken after the process has terminated
C10_FailedInitExits ==
    [][ /\ pc = "running"
        /\ (last'.op = "init" /\ last'.outcome \in { "open_failed", "mmap_failed" })
             => /\ pc' = "exited"
                /\ base_' = Null
                /\ size_' = 0
                /\ offset_' = 0 ]_vars

\* C10 witness: the mapping request was rejected
C10_Witness ==
    /\ last.op = "init"
    /\ last.outcome = "mmap_failed"
    /\ pc = "exited"
    /\ Uninitialized
    /\ size_ = 0
    /\ offset_ = 0

\* the sum over the first k calls of (padding inserted before the extent +
\* count*element_size)
RECURSIVE SumOfExtents(_)
SumOfExtents(k) ==
    IF k = 0 THEN 0
    ELSE SumOfExtents(k - 1)
           + (allocs[k].start - allocs[k].pre) + allocs[k].bytes

\* C11: when the calls served so far collectively fit within capacity, the
\* cursor equals the sum over the calls of padding + count*element_size
C11_CursorIsSumOfExtents ==
    (Initialized /\ SumOfExtents(Len(allocs)) <= size_)
      => offset_ = SumOfExtents(Len(allocs))

\* C11 witness: three calls that fit, two of them preceded by padding
C11_Witness ==
    /\ Initialized
    /\ Len(allocs) = 3
    /\ SumOfExtents(3) <= size_
    /\ allocs[1].bytes > 0
    /\ allocs[2].start > allocs[2].pre
    /\ allocs[3].start > allocs[3].pre
    /\ allocs[3].bytes > 0

\* ------------------------------------------- the scenario of 1024 bytes
\* the capacity the scenario maps
InitSizes12 == { 1024 }
\* the pointers the scenario hands to is_arena_ptr: those of Ptrs and both
\* sides of the cursor positions and of the end of a 1024-byte mapping
Ptrs12 ==
    Ptrs \cup { b + k : b \in MapBases, k \in { 79, 80, 83, 84, 1023, 1024 } }

\* init with 1024 bytes, then alloc of 10 elements of an 8-byte 8-aligned
\* type, of 1 element of a 4-byte 4-aligned type, and of 1000 more bytes,
\* with the read-only calls in between
Next12 ==
    \/ \E phys_addr \in PhysAddrs, size \in InitSizes12 : init(phys_addr, size)
    \/ /\ Initialized
       /\ Len(allocs) = 0
       /\ alloc(<<8, 8>>, 10)
    \/ /\ Initialized
       /\ Len(allocs) = 1
       /\ alloc(<<4, 4>>, 1)
    \/ /\ Initialized
       /\ Len(allocs) = 2
       /\ \E T \in ElemTypes : alloc(T, 1000 \div SizeOf(T))
    \/ \E p \in Ptrs12 : is_arena_ptr(p)
    \/ print_stats
    \/ \E p \in FreePtrs : GAPBS_FREE(p)

Spec12 == Init /\ [][Next12]_vars

\* C12: in a fresh arena of 1024 bytes the first call returns base and leaves
\* the cursor at 80, the second returns base+80 and leaves it at 84, and the
\* request for 1000 more bytes terminates the process with exhaustion
C12_Scenario1024 ==
    /\ (LastIsAlloc /\ last.bytes # 1000) => last.outcome = "returned"
    /\ (LastAllocReturned /\ Len(allocs) = 1)
         => /\ size_ = 1024
            /\ last.bytes = 80
            /\ last.ret = base_
            /\ offset_ = 80
    /\ (LastAllocReturned /\ Len(allocs) = 2)
         => /\ last.bytes = 4
            /\ last.ret = base_ + 80
            /\ offset_ = 84
    /\ (LastIsAlloc /\ last.bytes = 1000)
         => /\ last.outcome = "exhausted"
            /\ pc = "exited"
            /\ Len(allocs) = 2
            /\ offset_ = 84

\* C12 witness: the third request ran and met exhaustion
C12_Witness ==
    /\ LastIsAlloc
    /\ last.bytes = 1000
    /\ last.pre = 84
    /\ size_ = 1024
    /\ pc = "exited"

\* ------------------------------------- the scenario of the skipped bytes
\* the counts of the calls that follow the three of the scenario: those of
\* Counts and one that makes cur + needed pass 2^WordBits by a few bytes
Counts13 == Counts \cup { Mod - 12 }

\* init, two alloc of one element of a 1-byte type, one alloc of one element
\* of an 8-byte 8-aligned type, then any further calls
Next13 ==
    \/ \E phys_addr \in PhysAddrs, size \in InitSizes : init(phys_addr, size)
    \/ /\ Initialized
       /\ Len(allocs) < 2
       /\ alloc(<<1, 1>>, 1)
    \/ /\ Initialized
       /\ Len(allocs) = 2
       /\ alloc(<<8, 8>>, 1)
    \/ /\ Initialized
       /\ Len(allocs) >= 3
       /\ Len(allocs) < MaxAllocs + 2
       /\ \E T \in ElemTypes, n \in Counts13 : alloc(T, n)
    \/ \E p \in Ptrs : is_arena_ptr(p)
    \/ print_stats
    \/ \E p \in FreePtrs : GAPBS_FREE(p)

Spec13 == Init /\ [][Next13]_vars

\* C13 (as stated): after two 1-byte allocations the allocation of an
\* 8-byte-aligned type returns base+8, and the bytes [base+2, base+8) skipped
\* before it are part of no allocation returned afterwards
C13_SkippedBytesNeverReturned ==
    Len(allocs) >= 3 =>
      /\ allocs[2].start + allocs[2].bytes = 2
      /\ allocs[3].start = 8
      /\ \A i \in 4 .. Len(allocs) :
           Disjoint(base_ + allocs[i].start, allocs[i].bytes, base_ + 2, 6)

\* C14: is_arena_ptr and print_stats are pure reads: whatever the state and
\* the argument, the call leaves base, capacity and cursor as they were and
\* does not terminate the process
C14_ReadsArePure ==
    [][ last'.op \in { "is_arena_ptr", "print_stats" }
          => /\ pc = "running"
             /\ pc' = "running"
             /\ last'.outcome = "returned"
             /\ base_' = base_
             /\ size_' = size_
             /\ offset_' = offset_ ]_vars

\* C14 witness: print_stats ran in a mapped arena whose cursor had moved
C14_Witness ==
    /\ last.op = "print_stats"
    /\ Initialized
    /\ offset_ > 0
    /\ offset_ < size_
    /\ Len(allocs) > 0

\* C15 (as stated): GAPBS_FREE(p) leaves base, capacity and cursor as they
\* were, and no byte of an extent returned earlier is part of an extent
\* returned by a later alloc
C15_ReleaseNeverRecycles ==
    [][ /\ last'.op = "GAPBS_FREE"
             => /\ pc' = "running"
                /\ base_' = base_
                /\ size_' = size_
                /\ offset_' = offset_
        /\ (Initialized /\ Len(allocs') = Len(allocs) + 1)
             => \A i \in 1 .. Len(allocs) :
                  Disjoint(allocs[i].start, allocs[i].bytes,
                           allocs'[Len(allocs')].start,
                           allocs'[Len(allocs')].bytes) ]_vars

\* C16 (as stated): while the arena is Uninitialized every alloc of at least
\* one element of a non-empty type terminates the process with the
\* exhaustion failure, and is_arena_ptr is false of every pointer
C16_UninitializedServesNothing ==
    Uninitialized =>
      /\ (LastIsAlloc /\ last.arg >= 1 /\ last.bytes >= 1)
           => /\ last.outcome = "exhausted"
              /\ pc = "exited"
      /\ \A p \in SizeT : ~ InArena(p, base_, size_)
      /\ (last.op = "is_arena_ptr" => last.ret = 0)

\* where a request of m bytes aligned to a ends when the cursor stands at c:
\* computed from the cursor and the request alone
PlacedEnd(c, a, m) == (RoundUp(c, a) + m) % Mod

\* the cursor after the first k served requests, computed from the requests
\* alone: neither base nor the physical address enters
RECURSIVE PlacedCursor(_)
PlacedCursor(k) ==
    IF k = 0 THEN 0
    ELSE PlacedEnd(PlacedCursor(k - 1), allocs[k].align, allocs[k].bytes)

\* C17: placement is a function of the capacity and of the sequence of
\* requests only, so two arenas of the same capacity given the same requests
\* return the same offsets, reach the same cursors and fail at the same
\* call whatever their base: every offset returned, the cursor and the
\* failure of the last call equal the values computed by PlacedCursor
C17_PlacementIgnoresBase ==
    /\ \A k \in 1 .. Len(allocs) :
         /\ allocs[k].pre = PlacedCursor(k - 1)
         /\ allocs[k].start = RoundUp(PlacedCursor(k - 1), allocs[k].align)
         /\ PlacedCursor(k) <= size_
    /\ offset_ = PlacedCursor(Len(allocs))
    /\ LastIsAlloc
         => /\ last.pre = PlacedCursor(IF last.outcome = "returned"
                                       THEN Len(allocs) - 1 ELSE Len(allocs))
            /\ (last.outcome = "exhausted")
                 <=> (PlacedEnd(last.pre, last.align, last.bytes) > size_)
    /\ LastAllocReturned
         => last.ret = base_ + allocs[Len(allocs)].start

\* C17 witness: an arena mapped at the second base served padded requests
\* and then failed a call
C17_Witness ==
    /\ Initialized
    /\ base_ # PageSize
    /\ Len(allocs) >= 2
    /\ allocs[2].start > allocs[2].pre
    /\ allocs[2].bytes > 0
    /\ LastIsAlloc
    /\ last.outcome = "exhausted"
====
